---- MODULE Spec2Model ----
(***************************************************************************)
(* The appointment scheduling core of the spa backend:                     *)
(*   src/api/routes/booking.py   create_booking, get_available_slots       *)
(*   src/core/database.py        the bookings and services tables          *)
(*   src/core/config.py          business_hours, buffer_time               *)
(*                                                                         *)
(* Times of day are minutes since midnight; an "HH:MM" string is the pair  *)
(* <<hour, minute>>, compared as Python compares the zero-padded strings   *)
(* (lexicographically).  A datetime is [day, min] with day an ordinal whose *)
(* day 0 is a Monday; a date is the ordinal alone.                         *)
(*                                                                         *)
(* create_booking is an "async def" whose database calls are synchronous    *)
(* and whose awaited collaborators never suspend, and main.py runs a       *)
(* single uvicorn process: a handler runs from its first line to its       *)
(* response without another handler interleaving.  Each handler is one     *)
(* action.                                                                 *)
(***************************************************************************)
EXTENDS Integers, Sequences, FiniteSets, TLC

VARIABLES
    bookings,        \* the bookings table: a sequence of rows, row i has id i
    services,        \* the services table: name -> row
    business_hours,  \* settings.business_hours of this deployment
    now,             \* the wall clock, datetime.now()
    last,            \* the most recent HTTP response
    submitted,       \* client -> the booking request it has sent (RaceSpec)
    answers,         \* client -> the response it has received (RaceSpec)
    outage,          \* the collaborators whose calls fail or get no reply at present
    calls            \* the calls made to the collaborators, with their results

vars == <<bookings, services, business_hours, now, last, submitted, answers, outage, calls>>

-----------------------------------------------------------------------------
(* Bounds of the model *)

\* No more than this many rows are inserted into the bookings table.
MaxBookings == 2

\* This many clients send a booking request at the same time.
NumClients == 2

\* No loop of get_available_slots is followed for more than this many iterations
\* (a time of day takes 96 steps of 15 minutes to come round).
MaxLoopSteps == 100

-----------------------------------------------------------------------------
(* Python's datetime, strftime and strptime *)

MinutesPerDay == 24 * 60

\* time.strftime("%H:%M")
strftime_HM(m) == <<m \div 60, m % 60>>

\* datetime.strptime(s, "%H:%M") accepts hours 0..23 and minutes 0..59
ValidHM(s) == s[1] \in 0..23 /\ s[2] \in 0..59

strptime_HM(s) == s[1] * 60 + s[2]

\* str < str and str <= str on zero-padded "HH:MM"
StrLT(a, b) == a[1] < b[1] \/ (a[1] = b[1] /\ a[2] < b[2])

StrLE(a, b) == a = b \/ StrLT(a, b)

\* datetime + timedelta(minutes=n), carrying into the date
AddMinutes(dt, n) ==
    [day |-> dt.day + ((dt.min + n) \div MinutesPerDay),
     min |-> (dt.min + n) % MinutesPerDay]

\* datetime <= datetime
DatetimeLE(a, b) == a.day < b.day \/ (a.day = b.day /\ a.min <= b.min)

WeekdayNames ==
    <<"monday", "tuesday", "wednesday", "thursday", "friday", "saturday", "sunday">>

\* (mutant) the weekday name is looked up one place too far
day_of_week_shifted(day) == WeekdayNames[((day + 1) % 7) + 1]

\* date.strftime("%A").lower(); day 0 is a Monday
day_of_week(day) == WeekdayNames[(day % 7) + 1]

-----------------------------------------------------------------------------
(* Settings *)

\* settings.business_hours as config.py sets it
DefaultBusinessHours ==
    [d \in {"monday", "tuesday", "wednesday", "thursday", "friday", "saturday", "sunday"} |->
        IF d = "saturday" THEN [open |-> <<10, 0>>, close |-> <<18, 0>>]
        ELSE IF d = "sunday" THEN [open |-> <<10, 0>>, close |-> <<16, 0>>]
        ELSE [open |-> <<9, 0>>, close |-> <<20, 0>>]]

\* A deployment that overrides the field (Settings reads the environment and
\* .env): closed on Sundays, open for the first two hours of Mondays.
OverriddenBusinessHours ==
    [d \in {"monday", "tuesday", "wednesday", "thursday", "friday", "saturday"} |->
        IF d = "saturday" THEN [open |-> <<10, 0>>, close |-> <<18, 0>>]
        ELSE IF d = "monday" THEN [open |-> <<0, 0>>, close |-> <<2, 0>>]
        ELSE [open |-> <<9, 0>>, close |-> <<20, 0>>]]

BusinessHoursSettings == {DefaultBusinessHours, OverriddenBusinessHours}

\* settings.buffer_time
buffer_time == 15

\* the 15-minute step of get_available_slots
SlotStep == 15

-----------------------------------------------------------------------------
(* The services table *)

\* init_db's default rows (two of the seven; the others have the same shape)
DefaultServices ==
    [n \in {"Swedish Massage", "Body Scrub"} |->
        IF n = "Swedish Massage"
        THEN [name |-> n, duration |-> 60, price |-> 80, is_active |-> TRUE]
        ELSE [name |-> n, duration |-> 45, price |-> 65, is_active |-> TRUE]]

\* Rows an administrator may write into the services table.  No route of the
\* application writes it; the is_active filters and init_db's existence test
\* are there for rows changed from outside.
ServiceEdits ==
    {[name |-> "Swedish Massage", duration |-> 60, price |-> 80, is_active |-> TRUE],
     [name |-> "Swedish Massage", duration |-> 60, price |-> 80, is_active |-> FALSE],
     [name |-> "Swedish Massage", duration |-> 90, price |-> 120, is_active |-> TRUE]}

\* durations an administrator may give Swedish Massage, a half-day and a
\* twelve-hour package among them
SlotDurations == {30, 45, 60, 240, 720}

\* (mutant) the query without its is_active filter
QueryServiceByName(svcs, name) ==
    {svcs[n] : n \in {x \in DOMAIN svcs : x = name}}

\* db.query(Service).filter(Service.name == name, Service.is_active == True).first()
\* as the set of matching rows (name is unique): empty when there is none
QueryActiveService(svcs, name) ==
    {svcs[n] : n \in {x \in DOMAIN svcs : x = name /\ svcs[x].is_active = TRUE}}

-----------------------------------------------------------------------------
(* Requests *)

\* "Reiki" names no row of the services table
ServiceNames == {"Swedish Massage", "Reiki"}

\* the Monday and the Sunday of the week after the clock starts
RequestDates == {7, 13}

\* <<date, "HH:MM">> of the booking requests; "25:00" does not parse
RequestSlots ==
    {<<7, <<0, 0>>>>, <<7, <<1, 0>>>>, <<7, <<10, 0>>>>, <<7, <<10, 30>>>>,
     <<7, <<11, 0>>>>, <<7, <<19, 30>>>>, <<7, <<20, 30>>>>, <<7, <<25, 0>>>>,
     <<13, <<10, 0>>>>}

BookingRequests ==
    {[service_name |-> "Swedish Massage", appointment_date |-> s[1], appointment_time |-> s[2]] :
        s \in RequestSlots}
    \cup
    {[service_name |-> "Reiki", appointment_date |-> s[1], appointment_time |-> s[2]] :
        s \in {<<7, <<10, 0>>>>, <<7, <<25, 0>>>>}}

SlotQueries ==
    {[service_name |-> "Swedish Massage", date |-> d] : d \in RequestDates}
    \cup {[service_name |-> "Reiki", date |-> 7]}

\* values of str(uuid.uuid4())[:8].upper()
ConfirmationCodes == {"3F2A9C1E", "B7D04A56"}

ClockInstants == {[day |-> 0, min |-> 720], [day |-> 7, min |-> 600]}

\* an HTTP response: an HTTPException (status_code, detail), a BookingResponse
\* or the available_slots body; with the route, service name and date asked for
Response(op, service_name, date, code, detail) ==
    [op |-> op, service_name |-> service_name, date |-> date,
     status_code |-> code, detail |-> detail,
     booking_id |-> 0, confirmation_code |-> "", total_price |-> 0,
     status |-> "", available_slots |-> <<>>]

-----------------------------------------------------------------------------
(* create_booking *)

\* (mutant) the column default is the first of the lifecycle's states
DefaultStatusPending == "pending"

\* Booking.status's column default
DefaultStatus == "confirmed"

\* Booking.appointment_date == <date>: the column is a DateTime and the
\* parameter a date, which is bound as that date's midnight
AppointmentDateEq(stored, date) == stored = [day |-> date, min |-> 0]

\* (mutant) the conflict query without its status filter
ConflictingBookingsAnyStatus(ledger, appointment_datetime, duration) ==
    LET end_time == AddMinutes(appointment_datetime, duration)
    IN  {i \in 1..Len(ledger) :
            /\ AppointmentDateEq(ledger[i].appointment_date, appointment_datetime.day)
            /\ StrLE(strftime_HM(appointment_datetime.min), ledger[i].appointment_time)
            /\ StrLE(ledger[i].appointment_time, strftime_HM(end_time.min))}

\* (mutant) the conflict query without its date filter
ConflictingBookingsAnyDate(ledger, appointment_datetime, duration) ==
    LET end_time == AddMinutes(appointment_datetime, duration)
    IN  {i \in 1..Len(ledger) :
            /\ ledger[i].status = "confirmed"
            /\ StrLE(strftime_HM(appointment_datetime.min), ledger[i].appointment_time)
            /\ StrLE(ledger[i].appointment_time, strftime_HM(end_time.min))}

\* (mutant) only the upper end of the range is tested
BetweenUpperOnly(x, lo, hi) == StrLE(x, hi)

\* Booking.appointment_time.between(lo, hi): lo <= x AND x <= hi on strings
Between(x, lo, hi) == StrLE(lo, x) /\ StrLE(x, hi)

\* the rows the conflict query matches
ConflictingBookings(ledger, appointment_datetime, duration) ==
    LET end_time == AddMinutes(appointment_datetime, duration)
    IN  {i \in 1..Len(ledger) :
            /\ AppointmentDateEq(ledger[i].appointment_date, appointment_datetime.day)
            /\ ledger[i].status = "confirmed"
            /\ Between(ledger[i].appointment_time,
                       strftime_HM(appointment_datetime.min),
                       strftime_HM(end_time.min))}

\* (mutant) appointment_datetime < datetime.now() is the rejection
InTheFutureOrNow(appointment_datetime, clock) ==
    ~(\/ appointment_datetime.day < clock.day
      \/ appointment_datetime.day = clock.day /\ appointment_datetime.min < clock.min)

\* appointment_datetime <= datetime.now() is the rejection
InTheFuture(appointment_datetime, clock) == ~DatetimeLE(appointment_datetime, clock)

\* appointment_time < open or appointment_time > close is the rejection
WithinBusinessHours(appointment_time, hours) ==
    ~(StrLT(appointment_time, hours.open) \/ StrLT(hours.close, appointment_time))

\* Booking(...) as create_booking constructs it, with the column defaults
NewBooking(id, service, appointment_datetime) ==
    [id |-> id,
     service_name |-> service.name,
     service_duration |-> service.duration,
     appointment_date |-> appointment_datetime,
     appointment_time |-> strftime_HM(appointment_datetime.min),
     total_price |-> service.price,
     status |-> DefaultStatus]

\* datetime.strptime(f"{appointment_date} {appointment_time}", "%Y-%m-%d %H:%M")
ParseAppointment(req) ==
    [day |-> req.appointment_date, min |-> strptime_HM(req.appointment_time)]

\* (mutant) every check raises the same HTTPException
BookingOutcomeGeneric(req, svcs, ledger, hours, clock) ==
    LET found == QueryActiveService(svcs, req.service_name)
        appointment_datetime == ParseAppointment(req)
        dow == day_of_week(appointment_datetime.day)
    IN  IF /\ found # {}
           /\ ValidHM(req.appointment_time)
           /\ InTheFuture(appointment_datetime, clock)
           /\ dow \in DOMAIN hours
           /\ WithinBusinessHours(strftime_HM(appointment_datetime.min), hours[dow])
           /\ ConflictingBookings(ledger, appointment_datetime,
                                  (CHOOSE s \in found : TRUE).duration) = {}
        THEN [status_code |-> 200, detail |-> ""]
        ELSE [status_code |-> 400, detail |-> "Booking failed"]

\* The checks of create_booking in their order: the HTTPException raised, or 200
BookingOutcome(req, svcs, ledger, hours, clock) ==
    LET found == QueryActiveService(svcs, req.service_name)
    IN  IF found = {} THEN [status_code |-> 404, detail |-> "Service not found"]
        ELSE IF ~ValidHM(req.appointment_time)
        THEN [status_code |-> 400, detail |-> "Invalid date/time format"]
        ELSE
        LET service == CHOOSE s \in found : TRUE
            appointment_datetime == ParseAppointment(req)
            dow == day_of_week(appointment_datetime.day)
        IN  IF ~InTheFuture(appointment_datetime, clock)
            THEN [status_code |-> 400, detail |-> "Appointment must be in the future"]
            ELSE IF dow \notin DOMAIN hours
            THEN [status_code |-> 400, detail |-> "Spa is closed on this day"]
            ELSE IF ~WithinBusinessHours(strftime_HM(appointment_datetime.min), hours[dow])
            THEN [status_code |-> 400, detail |-> "Spa is open from {open} to {close} on {day}"]
            ELSE IF ConflictingBookings(ledger, appointment_datetime, service.duration) # {}
            THEN [status_code |-> 409, detail |-> "Time slot is already booked"]
            ELSE [status_code |-> 200, detail |-> ""]

\* the collaborators create_booking calls once the row is committed
SideEffects == {"client_email", "manager_email", "calendar", "sheet"}

\* in `outage`: the calendar's API, or the sheet's, accepts the request and
\* never answers it
Unresponsive == {"calendar_unresponsive", "sheet_unresponsive"}

\* The calls create_booking makes once the row is committed, in the order
\* they are made: add_to_calendar is awaited, then add_booking_to_sheet, and
\* the two emails are background tasks that run once the response is out.
CallOrder == <<"calendar", "sheet", "client_email", "manager_email">>

\* how a call ends: done, failed, or still waiting for its reply
CallResult(effect, down) ==
    IF \/ effect = "calendar" /\ "calendar_unresponsive" \in down
       \/ effect = "sheet" /\ "sheet_unresponsive" \in down
    THEN "waiting"
    ELSE IF effect \in down THEN "failed" ELSE "done"

\* the calls made for booking id from the k-th on: nothing after a waiting
\* call is reached
CallsFrom(k, id, down) ==
    {[effect |-> CallOrder[n], booking_id |-> id, result |-> CallResult(CallOrder[n], down)] :
        n \in {m \in k..Len(CallOrder) :
                  \A j \in k..(m - 1) : CallResult(CallOrder[j], down) # "waiting"}}

CallsMade(id, down) == CallsFrom(1, id, down)

\* A handler is inside a call that has not returned.  The Google clients are
\* synchronous: the call holds the event loop, and no handler runs meanwhile.
LoopBlocked == \E c \in calls : c.result = "waiting"

\* (mutant) the calendar and sheet calls are made outside a try block
AfterSideEffectsPropagating(response, down) ==
    IF down \cap {"calendar", "sheet"} # {}
    THEN Response("book", response.service_name, response.date, 500, "Internal Server Error")
    ELSE response

\* What create_booking returns after its side effects, of which those in
\* `down` fail.  The two emails are background tasks, run once the response
\* is out; add_to_calendar and add_booking_to_sheet are each awaited inside
\* "try: ... except Exception", which prints a warning and goes on.
AfterSideEffects(response, down) == response

\* (mutant) the rejection rolls back the row committed last as well
RejectBookingRollingBack(req) ==
    LET outcome == BookingOutcome(req, services, bookings, business_hours, now)
    IN  /\ outcome.status_code # 200
        /\ last' = Response("book", req.service_name, req.appointment_date,
                             outcome.status_code, outcome.detail)
        /\ bookings' = SubSeq(bookings, 1, Len(bookings) - 1)
        /\ UNCHANGED calls

\* (mutant) the two emails are queued before the checks, for the row to come
RejectBookingNotifying(req) ==
    LET outcome == BookingOutcome(req, services, bookings, business_hours, now)
    IN  /\ outcome.status_code # 200
        /\ last' = Response("book", req.service_name, req.appointment_date,
                             outcome.status_code, outcome.detail)
        /\ calls' = calls \cup
                        {[effect |-> e, booking_id |-> Len(bookings) + 1, result |-> "done"] :
                            e \in {"client_email", "manager_email"}}
        /\ UNCHANGED bookings

\* (mutant) the row is added and committed before the conflict query runs
RejectBookingKeepingRow(req) ==
    LET outcome == BookingOutcome(req, services, bookings, business_hours, now)
    IN  /\ outcome.status_code # 200
        /\ last' = Response("book", req.service_name, req.appointment_date,
                             outcome.status_code, outcome.detail)
        /\ bookings' =
              IF outcome.status_code = 409 /\ Len(bookings) < MaxBookings
              THEN Append(bookings,
                          NewBooking(Len(bookings) + 1, services[req.service_name],
                                     ParseAppointment(req)))
              ELSE bookings
        /\ UNCHANGED calls

\* POST /book raising an HTTPException: nothing is written
RejectBooking(req) ==
    LET outcome == BookingOutcome(req, services, bookings, business_hours, now)
    IN  /\ outcome.status_code # 200
        /\ last' = Response("book", req.service_name, req.appointment_date,
                             outcome.status_code, outcome.detail)
        /\ UNCHANGED <<bookings, calls>>

\* POST /book passing every check: the row is added and committed, and the
\* BookingResponse carries the uuid drawn for this request
AcceptBooking(req, code) ==
    LET outcome == BookingOutcome(req, services, bookings, business_hours, now)
        service == CHOOSE s \in QueryActiveService(services, req.service_name) : TRUE
        booking == NewBooking(Len(bookings) + 1, service, ParseAppointment(req))
    IN  /\ outcome.status_code = 200
        /\ Len(bookings) < MaxBookings
        /\ bookings' = Append(bookings, booking)
        /\ calls' = calls \cup CallsMade(booking.id, outage)
        /\ last' = IF \E c \in CallsMade(booking.id, outage) : c.result = "waiting"
                   THEN last
                   ELSE AfterSideEffects(
                       [Response("book", req.service_name, req.appointment_date, 200, "") EXCEPT
                           !.booking_id = booking.id,
                           !.confirmation_code = code,
                           !.total_price = service.price,
                           !.status = booking.status],
                       outage)

\* POST /book for one request
HandleBooking(req) ==
    /\ ~LoopBlocked
    /\ \/ RejectBooking(req)
       \/ \E code \in ConfirmationCodes : AcceptBooking(req, code)

\* The call create_booking waits in gives up inside the client library: the
\* wrapper's "except Exception" returns without the event or the row, and
\* create_booking goes on from there to its next call or to its response.
CollaboratorTimesOut ==
    /\ \E c \in calls : \E code \in ConfirmationCodes :
          LET k == CHOOSE n \in 1..Len(CallOrder) : CallOrder[n] = c.effect
              booking == bookings[c.booking_id]
              rest == CallsFrom(k + 1, booking.id, outage)
          IN  /\ c.result = "waiting"
              /\ calls' = (calls \ {c}) \cup {[c EXCEPT !.result = "failed"]} \cup rest
              /\ last' = IF \E x \in rest : x.result = "waiting"
                         THEN last
                         ELSE [Response("book", booking.service_name,
                                        booking.appointment_date.day, 200, "") EXCEPT
                                  !.booking_id = booking.id,
                                  !.confirmation_code = code,
                                  !.total_price = booking.total_price,
                                  !.status = booking.status]
    /\ UNCHANGED <<bookings, services, business_hours, now, submitted, answers, outage>>

create_booking ==
    /\ \E req \in BookingRequests : HandleBooking(req)
    /\ UNCHANGED <<services, business_hours, now, submitted, answers, outage>>

-----------------------------------------------------------------------------
(* get_available_slots *)

\* A loop followed for MaxLoopSteps iterations without reaching its exit
\* condition leaves this in place of a time.
Diverged == <<-1, -1>>

\* the "Add all times in this booking slot" loop, from current_time
RECURSIVE BookedTimesFrom(_, _, _)
BookedTimesFrom(current_time, booking_end, fuel) ==
    IF ~(current_time < booking_end) THEN {}
    ELSE IF fuel = 0 THEN {Diverged}
    ELSE {strftime_HM(current_time)}
            \cup BookedTimesFrom((current_time + SlotStep) % MinutesPerDay,
                                 booking_end, fuel - 1)

\* (mutant) booking_end is taken from the service's current duration
BookedTimesCurrentDuration(ledger, target_date) ==
    LET existing_bookings ==
            {i \in 1..Len(ledger) :
                /\ AppointmentDateEq(ledger[i].appointment_date, target_date)
                /\ ledger[i].status = "confirmed"}
        Times(i) ==
            LET booking_start == strptime_HM(ledger[i].appointment_time)
                booking_end ==
                    (booking_start + services[ledger[i].service_name].duration) % MinutesPerDay
            IN  BookedTimesFrom(booking_start, booking_end, MaxLoopSteps)
    IN  UNION {Times(i) : i \in existing_bookings}

\* booked_times of the rows the date query matches
BookedTimes(ledger, target_date) ==
    LET existing_bookings ==
            {i \in 1..Len(ledger) :
                /\ AppointmentDateEq(ledger[i].appointment_date, target_date)
                /\ ledger[i].status = "confirmed"}
        Times(i) ==
            LET booking_start == strptime_HM(ledger[i].appointment_time)
                booking_end == (booking_start + ledger[i].service_duration) % MinutesPerDay
            IN  BookedTimesFrom(booking_start, booking_end, MaxLoopSteps)
    IN  UNION {Times(i) : i \in existing_bookings}

\* the "Check if this slot is available" loop, from check_time: is_available
\* as "yes" or "no", or "diverged"
RECURSIVE IsAvailableFrom(_, _, _, _)
IsAvailableFrom(check_time, slot_end, booked_times, fuel) ==
    IF ~(check_time < slot_end) THEN "yes"
    ELSE IF strftime_HM(check_time) \in booked_times THEN "no"
    ELSE IF fuel = 0 THEN "diverged"
    ELSE IsAvailableFrom((check_time + SlotStep) % MinutesPerDay,
                         slot_end, booked_times, fuel - 1)

\* The "Generate available slots" loop, from current_time, followed for at
\* most fuel iterations.  Each iteration adds buffer_time + 15 minutes and
\* keeps the time of day, so the k-th iteration is at
\* (current_time + k * (buffer_time + 15)) mod a day; the loop leaves at the
\* first of them that is after end_time.  The slots appended, in their order,
\* and whether the walk, or an availability loop inside it, did not end.
SlotWalk(current_time, end_time, duration, booked_times, fuel) ==
    LET at(k) == (current_time + k * (buffer_time + SlotStep)) % MinutesPerDay
        exits == {k \in 0..fuel : ~(at(k) <= end_time)}
        iterations == IF exits = {} THEN fuel
                      ELSE CHOOSE k \in exits : \A x \in exits : k <= x
        is_available ==
            [k \in 0..(iterations - 1) |->
                LET slot_end == (at(k) + duration) % MinutesPerDay
                IN  IF slot_end <= end_time
                    THEN IsAvailableFrom(at(k), slot_end, booked_times, MaxLoopSteps)
                    ELSE "no"]
        stuck == {k \in 0..(iterations - 1) : is_available[k] = "diverged"}
        reached == IF stuck = {} THEN iterations
                   ELSE CHOOSE k \in stuck : \A x \in stuck : k <= x
        appended == SelectSeq([n \in 1..reached |-> n - 1],
                              LAMBDA k : is_available[k] = "yes")
    IN  [slots |-> [n \in 1..Len(appended) |-> strftime_HM(at(appended[n]))],
         diverged |-> exits = {} \/ stuck # {}]

\* (mutant) an available slot is put at the head of the list
AvailableSlotsFromPrepending(current_time, end_time, duration, booked_times, fuel) ==
    LET walk == SlotWalk(current_time, end_time, duration, booked_times, fuel)
        count == Len(walk.slots)
    IN  (IF walk.diverged THEN <<Diverged>> ELSE <<>>)
            \o [n \in 1..count |-> walk.slots[count + 1 - n]]

\* available_slots as the "Generate available slots" loop leaves it
AvailableSlotsFrom(current_time, end_time, duration, booked_times, fuel) ==
    LET walk == SlotWalk(current_time, end_time, duration, booked_times, fuel)
    IN  walk.slots \o (IF walk.diverged THEN <<Diverged>> ELSE <<>>)

\* The response of GET /available-slots
SlotsOutcome(q, svcs, ledger, hours) ==
    LET found == QueryActiveService(svcs, q.service_name)
        dow == day_of_week(q.date)
    IN  IF found = {} THEN Response("slots", q.service_name, q.date, 404, "Service not found")
        ELSE IF dow \notin DOMAIN hours THEN Response("slots", q.service_name, q.date, 200, "")
        ELSE
        LET service == CHOOSE s \in found : TRUE
            start_time == strptime_HM(hours[dow].open)
            end_time == strptime_HM(hours[dow].close)
            booked_times == BookedTimes(ledger, q.date)
        IN  [Response("slots", q.service_name, q.date, 200, "") EXCEPT
                !.available_slots =
                    AvailableSlotsFrom(start_time, end_time, service.duration,
                                       booked_times, MaxLoopSteps)]

\* (mutant) the listing holds the first slot it returns for the client
HandleSlotsReserving(q) ==
    LET response == SlotsOutcome(q, services, bookings, business_hours)
        slots == response.available_slots
    IN  /\ ~LoopBlocked
        /\ last' = response
        /\ bookings' =
              IF Len(slots) > 0 /\ Len(bookings) < MaxBookings
              THEN Append(bookings,
                          NewBooking(Len(bookings) + 1, services[q.service_name],
                                     [day |-> q.date, min |-> strptime_HM(slots[1])]))
              ELSE bookings

\* GET /available-slots for one query
HandleSlots(q) ==
    /\ ~LoopBlocked
    /\ last' = SlotsOutcome(q, services, bookings, business_hours)
    /\ UNCHANGED bookings

get_available_slots ==
    /\ \E q \in SlotQueries : HandleSlots(q)
    /\ UNCHANGED <<services, business_hours, now, submitted, answers, outage, calls>>

-----------------------------------------------------------------------------
(* The environment *)

\* time passes
Tick ==
    /\ \E t \in ClockInstants : ~DatetimeLE(t, now) /\ now' = t
    /\ UNCHANGED <<bookings, services, business_hours, last, submitted, answers, outage, calls>>

\* an administrator rewrites a row of the services table
AdminUpdateService ==
    /\ \E row \in ServiceEdits :
          /\ services[row.name] # row
          /\ services' = [services EXCEPT ![row.name] = row]
    /\ UNCHANGED <<bookings, business_hours, now, last, submitted, answers, outage, calls>>

\* the values the status column is documented to take
BookingStatuses == {"confirmed", "completed", "cancelled"}

\* A row's status is rewritten.  No route of the application does it and the
\* column is a plain String: whoever writes the table may store any of the
\* values, whatever the row held before.
UpdateBookingStatus ==
    /\ \E i \in 1..Len(bookings) : \E s \in BookingStatuses :
          /\ bookings[i].status # s
          /\ bookings' = [bookings EXCEPT ![i].status = s]
    /\ UNCHANGED <<services, business_hours, now, last, submitted, answers, outage, calls>>

-----------------------------------------------------------------------------

Init ==
    /\ bookings = <<>>
    /\ services = DefaultServices
    /\ business_hours \in BusinessHoursSettings
    /\ now = [day |-> 0, min |-> 720]
    /\ last = Response("none", "", 0, 0, "")
    /\ submitted = <<>>
    /\ answers = <<>>
    /\ outage = {}
    /\ calls = {}

Next ==
    \/ create_booking
    \/ get_available_slots
    \/ Tick
    \/ AdminUpdateService

Spec == Init /\ [][Next]_vars

-----------------------------------------------------------------------------
(* The life of a booking: admissions, and rewrites of the status column.     *)

LifecycleNext ==
    \/ create_booking
    \/ UpdateBookingStatus

LifecycleSpec == Init /\ [][LifecycleNext]_vars

-----------------------------------------------------------------------------
(* The slot listing on its own: GET /available-slots asked of a table of      *)
(* bookings and a catalogue drawn from the ones the routes and the            *)
(* administrator can leave behind.                                            *)

\* date, start, stored duration and status of the rows of the drawn tables
SlotRowShapes ==
    {[day |-> 7, min |-> m, duration |-> 60, status |-> st] :
        m \in {0, 600, 620}, st \in {"confirmed", "cancelled"}}
    \cup {[day |-> 7, min |-> 0, duration |-> 50, status |-> "confirmed"]}

\* the row create_booking stored for a shape, its status rewritten since
SlotRow(id, shape) ==
    [NewBooking(id, [DefaultServices["Swedish Massage"] EXCEPT !.duration = shape.duration],
                [day |-> shape.day, min |-> shape.min])
        EXCEPT !.status = shape.status]

\* create_booking admits a start that its weekday's hours hold
SlotRowAdmissible(row, hours) ==
    /\ day_of_week(row.appointment_date.day) \in DOMAIN hours
    /\ WithinBusinessHours(row.appointment_time, hours[day_of_week(row.appointment_date.day)])

SlotLedgers ==
    {[i \in 1..n |-> SlotRow(i, f[i])] :
        n \in 0..MaxBookings, f \in [1..MaxBookings -> SlotRowShapes]}

SlotInit ==
    /\ business_hours \in BusinessHoursSettings
    /\ bookings \in SlotLedgers
    /\ \A i \in 1..Len(bookings) : SlotRowAdmissible(bookings[i], business_hours)
    /\ services \in {[DefaultServices EXCEPT !["Swedish Massage"].duration = d] :
                        d \in SlotDurations}
    /\ now = [day |-> 0, min |-> 720]
    /\ last = Response("none", "", 0, 0, "")
    /\ submitted = <<>>
    /\ answers = <<>>
    /\ outage = {}
    /\ calls = UNION {CallsMade(i, {}) : i \in 1..Len(bookings)}

SlotNext == get_available_slots

SlotSpec == SlotInit /\ [][SlotNext]_vars

-----------------------------------------------------------------------------
(* A caller's view: the two requests sent last and the answers they got,      *)
(* latest first, nothing but POST /book happening.                            *)

\* POST /book for req, the caller keeping the request and the answer
Submit(req) ==
    /\ HandleBooking(req)
    /\ submitted' = IF submitted = <<>> THEN <<req>> ELSE <<req, submitted[1]>>
    /\ answers' = IF answers = <<>> THEN <<last'>> ELSE <<last', answers[1]>>
    /\ UNCHANGED <<services, business_hours, now, outage>>

RetryInit ==
    /\ bookings = <<>>
    /\ services = DefaultServices
    /\ business_hours \in BusinessHoursSettings
    /\ now \in ClockInstants
    /\ last = Response("none", "", 0, 0, "")
    /\ submitted = <<>>
    /\ answers = <<>>
    /\ outage = {}
    /\ calls = {}

RetryNext == \E req \in BookingRequests : Submit(req)

RetrySpec == RetryInit /\ [][RetryNext]_vars

-----------------------------------------------------------------------------
(* Admissions while collaborators are out of order: the mail service, the     *)
(* calendar and the sheet, in any combination.                                *)

NotifyInit ==
    /\ bookings = <<>>
    /\ services = DefaultServices
    /\ business_hours \in BusinessHoursSettings
    /\ now = [day |-> 0, min |-> 720]
    /\ last = Response("none", "", 0, 0, "")
    /\ submitted = <<>>
    /\ answers = <<>>
    /\ outage \in SUBSET SideEffects
    /\ calls = {}

NotifyNext == create_booking

NotifySpec == NotifyInit /\ [][NotifyNext]_vars

-----------------------------------------------------------------------------
(* Concurrent submission.  NumClients clients have each sent one POST /book   *)
(* before any is handled; the event loop runs the handlers one at a time, in  *)
(* any order, each from its first line to its response.                       *)

Clients == 1..NumClients

\* the requests the clients choose from: Swedish Massage on the Monday
RaceRequests ==
    {[service_name |-> "Swedish Massage", appointment_date |-> 7, appointment_time |-> t] :
        t \in {<<0, 0>>, <<1, 0>>, <<10, 0>>, <<10, 30>>, <<11, 0>>}}

NoAnswer == Response("none", "", 0, 0, "")

\* the event loop runs create_booking for client c's request
Serve(c) ==
    /\ answers[c] = NoAnswer
    /\ HandleBooking(submitted[c])
    /\ answers' = [answers EXCEPT ![c] = last']
    /\ UNCHANGED <<services, business_hours, now, submitted, outage>>

RaceInit ==
    /\ bookings = <<>>
    /\ services = DefaultServices
    /\ business_hours \in BusinessHoursSettings
    /\ now = [day |-> 0, min |-> 720]
    /\ last = NoAnswer
    /\ submitted \in [Clients -> RaceRequests]
    /\ answers = [c \in Clients |-> NoAnswer]
    /\ outage = {}
    /\ calls = {}

RaceNext == \E c \in Clients : Serve(c)

RaceSpec == RaceInit /\ [][RaceNext]_vars

-----------------------------------------------------------------------------
(* The slot listing of a deployment that may close late in the evening.       *)

\* business_hours overridden for evening opening: Mondays 18:00 to 23:30
LateClosingBusinessHours ==
    [DefaultBusinessHours EXCEPT !["monday"] = [open |-> <<18, 0>>, close |-> <<23, 30>>]]

WindowInit ==
    /\ business_hours \in BusinessHoursSettings \cup {LateClosingBusinessHours}
    /\ bookings \in SlotLedgers
    /\ \A i \in 1..Len(bookings) : SlotRowAdmissible(bookings[i], business_hours)
    /\ services \in {[DefaultServices EXCEPT !["Swedish Massage"].duration = d] :
                        d \in SlotDurations}
    /\ now = [day |-> 0, min |-> 720]
    /\ last = Response("none", "", 0, 0, "")
    /\ submitted = <<>>
    /\ answers = <<>>
    /\ outage = {}
    /\ calls = UNION {CallsMade(i, {}) : i \in 1..Len(bookings)}

WindowSpec == WindowInit /\ [][SlotNext]_vars

-----------------------------------------------------------------------------
(* Admissions while the calendar's API or the sheet's accepts requests and    *)
(* never answers them.                                                        *)

HangInit ==
    /\ bookings = <<>>
    /\ services = DefaultServices
    /\ business_hours \in BusinessHoursSettings
    /\ now \in ClockInstants
    /\ last = Response("none", "", 0, 0, "")
    /\ submitted = <<>>
    /\ answers = <<>>
    /\ outage \in SUBSET Unresponsive
    /\ calls = {}

HangNext ==
    \/ create_booking
    \/ CollaboratorTimesOut

HangSpec == HangInit /\ [][HangNext]_vars

-----------------------------------------------------------------------------
(* Clients browsing and booking: slot listings between the admissions.        *)

BrowseNext ==
    \/ create_booking
    \/ get_available_slots

BrowseSpec == Init /\ [][BrowseNext]_vars

-----------------------------------------------------------------------------
(* Browsing and booking a catalogue whose Swedish Massage is the hour or a    *)
(* day-long retreat: Service.duration is an Integer column with no bound.     *)

RetreatDurations == {60, MinutesPerDay}

RetreatInit ==
    /\ bookings = <<>>
    /\ services \in {[DefaultServices EXCEPT !["Swedish Massage"].duration = d] :
                        d \in RetreatDurations}
    /\ business_hours \in BusinessHoursSettings
    /\ now = [day |-> 0, min |-> 720]
    /\ last = Response("none", "", 0, 0, "")
    /\ submitted = <<>>
    /\ answers = <<>>
    /\ outage = {}
    /\ calls = {}

RetreatSpec == RetreatInit /\ [][BrowseNext]_vars

-----------------------------------------------------------------------------
(* What the specification says of a request and of a row, in its own terms:  *)
(* minutes since midnight and half-open intervals.                           *)

RowStart(b) == b.appointment_time[1] * 60 + b.appointment_time[2]

RowEnd(b) == RowStart(b) + b.service_duration

Overlap(s1, e1, s2, e2) == s1 < e2 /\ s2 < e1

\* a known service: a row of that name whose active flag is set
ReqKnown(req) ==
    req.service_name \in DOMAIN services /\ services[req.service_name].is_active

ReqParses(req) == req.appointment_time[1] < 24 /\ req.appointment_time[2] < 60

ReqStart(req) == req.appointment_time[1] * 60 + req.appointment_time[2]

ReqEnd(req) == ReqStart(req) + services[req.service_name].duration

ReqFuture(req) ==
    \/ req.appointment_date > now.day
    \/ req.appointment_date = now.day /\ ReqStart(req) > now.min

\* the operating window holds the whole interval
InsideHours(date, start, end) ==
    LET dow == WeekdayNames[(date % 7) + 1]
    IN  /\ dow \in DOMAIN business_hours
        /\ business_hours[dow].open[1] * 60 + business_hours[dow].open[2] <= start
        /\ end <= business_hours[dow].close[1] * 60 + business_hours[dow].close[2]

\* valid on its own: known service, well-formed, future, inside hours
ReqValid(req) ==
    /\ ReqKnown(req)
    /\ ReqParses(req)
    /\ ReqFuture(req)
    /\ InsideHours(req.appointment_date, ReqStart(req), ReqEnd(req))

\* the confirmed rows of the request's date that its interval overlaps
ReqOverlapped(req) ==
    {i \in 1..Len(bookings) :
        /\ bookings[i].status = "confirmed"
        /\ bookings[i].appointment_date.day = req.appointment_date
        /\ Overlap(ReqStart(req), ReqEnd(req), RowStart(bookings[i]), RowEnd(bookings[i]))}

\* the confirmed rows of the request's date that its interval exactly abuts
ReqAbutted(req) ==
    {i \in 1..Len(bookings) :
        /\ bookings[i].status = "confirmed"
        /\ bookings[i].appointment_date.day = req.appointment_date
        /\ (ReqStart(req) = RowEnd(bookings[i]) \/ ReqEnd(req) = RowStart(bookings[i]))}

\* the weekday's operating window, in minutes
OpenOf(date) ==
    LET h == business_hours[WeekdayNames[(date % 7) + 1]]
    IN  h.open[1] * 60 + h.open[2]

CloseOf(date) ==
    LET h == business_hours[WeekdayNames[(date % 7) + 1]]
    IN  h.close[1] * 60 + h.close[2]

\* the weekday has an operating window
OpenDay(date) == WeekdayNames[(date % 7) + 1] \in DOMAIN business_hours

\* the latest answer is a slot list; its n-th slot in minutes
SlotListed == last.op = "slots" /\ last.status_code = 200

SlotAt(n) == last.available_slots[n][1] * 60 + last.available_slots[n][2]

\* the rejection the specification's admission protocol gives a well-formed
\* request that is not admitted: its checks in their order
ReasonOf(req) ==
    IF ~ReqKnown(req) THEN "UnknownService"
    ELSE IF ~ReqFuture(req) THEN "PastOrPresent"
    ELSE IF ~InsideHours(req.appointment_date, ReqStart(req), ReqEnd(req)) THEN "OutsideHours"
    ELSE "Conflict"

\* this step inserted a row
Inserted == Len(bookings') = Len(bookings) + 1

\* The latest answer is one create_booking gives to req.  HandleBooking(req)
\* implies it; the formulas state it first so that the handler is followed
\* only for the requests the answer can belong to.
AnswersBooking(req) ==
    /\ last'.op = "book"
    /\ last'.service_name = req.service_name
    /\ last'.date = req.appointment_date

\* the latest answer is one get_available_slots gives to q
AnswersListing(q) ==
    /\ last'.op = "slots"
    /\ last'.service_name = q.service_name
    /\ last'.date = q.date

-----------------------------------------------------------------------------
(* The claims *)

\* C1: no two bookings with status pending or confirmed on the same date have
\* overlapping half-open intervals [start, start + duration).
C1_NoOverlappingBookings ==
    \A i, j \in 1..Len(bookings) :
        (/\ i < j
         /\ bookings[i].status \in {"pending", "confirmed"}
         /\ bookings[j].status \in {"pending", "confirmed"}
         /\ bookings[i].appointment_date.day = bookings[j].appointment_date.day)
        => ~Overlap(RowStart(bookings[i]), RowEnd(bookings[i]),
                    RowStart(bookings[j]), RowEnd(bookings[j]))

\* C2: when the clients' requests are each valid on their own and pairwise
\* overlapping on one date, then once all are answered exactly one answer is
\* 200, every other is 409 Conflict, and the table holds exactly one row.
C2_ExactlyOneOfConcurrentAdmitted ==
    (/\ \A c \in Clients : answers[c] # NoAnswer
     /\ \A c \in Clients : ReqValid(submitted[c])
     /\ \A c, d \in Clients :
           /\ submitted[c].appointment_date = submitted[d].appointment_date
           /\ Overlap(ReqStart(submitted[c]), ReqEnd(submitted[c]),
                      ReqStart(submitted[d]), ReqEnd(submitted[d])))
    => (/\ Cardinality({c \in Clients : answers[c].status_code = 200}) = 1
        /\ \A c \in Clients : answers[c].status_code \in {200, 409}
        /\ Len(bookings) = 1)

\* C3: a request, valid on its own, whose interval overlaps a confirmed booking
\* of its date is answered 409 Conflict and inserts nothing, whichever of the
\* two starts first.
C3_OverlapIsConflict ==
    [][\A req \in BookingRequests :
          (AnswersBooking(req) /\ ReqValid(req) /\ ReqOverlapped(req) # {} /\ HandleBooking(req))
          => (last'.status_code = 409 /\ bookings' = bookings)]_vars

C5_OutsideHoursRejected ==
    [][/\ \A req \in BookingRequests :
            (AnswersBooking(req) /\ ReqKnown(req) /\ ReqParses(req) /\ ReqFuture(req)
                /\ ~InsideHours(req.appointment_date, ReqStart(req), ReqEnd(req))
                /\ HandleBooking(req))
            => (/\ last'.status_code = 400
                /\ last'.detail \in {"Spa is closed on this day",
                                     "Spa is open from {open} to {close} on {day}"}
                /\ bookings' = bookings)
       /\ \A i \in 1..Len(bookings') :
            InsideHours(bookings'[i].appointment_date.day,
                        RowStart(bookings'[i]), RowEnd(bookings'[i]))]_vars

\* C6: a well-formed request whose date and start are not after the current
\* time inserts nothing and is not answered 200; when its service is known the
\* answer is 400 "Appointment must be in the future"; and a row is inserted
\* only with a date and start after the time of its insertion.
C6_PastOrPresentRejected ==
    [][/\ \A req \in BookingRequests :
            (AnswersBooking(req) /\ ReqParses(req) /\ ~ReqFuture(req) /\ HandleBooking(req))
            => (/\ bookings' = bookings
                /\ last'.status_code # 200
                /\ ReqKnown(req) =>
                      (/\ last'.status_code = 400
                       /\ last'.detail = "Appointment must be in the future"))
       /\ Inserted =>
            LET row == bookings'[Len(bookings')]
            IN  \/ row.appointment_date.day > now.day
                \/ row.appointment_date.day = now.day /\ row.appointment_date.min > now.min]_vars

\* C6's case: a request of the very minute the clock shows, the Monday at
\* 10:00, is the latest one answered, with the rejection.
C6_Witness ==
    /\ last.op = "book" /\ last.status_code = 400
    /\ last.detail = "Appointment must be in the future"
    /\ last.date = now.day
    /\ Len(bookings) > 0

\* C7: a name that matches no row of the services table, or only a row whose
\* active flag is false, is answered 404 "Service not found" by create_booking,
\* which inserts nothing, and by get_available_slots.
C7_InactiveServiceUnresolved ==
    [][/\ \A req \in BookingRequests :
            (AnswersBooking(req) /\ ~ReqKnown(req) /\ HandleBooking(req))
            => (/\ last'.status_code = 404 /\ last'.detail = "Service not found"
                /\ bookings' = bookings)
       /\ \A q \in SlotQueries :
            (/\ AnswersListing(q)
             /\ ~(q.service_name \in DOMAIN services /\ services[q.service_name].is_active)
             /\ HandleSlots(q))
            => (/\ last'.status_code = 404 /\ last'.detail = "Service not found"
                /\ last'.available_slots = <<>>)]_vars

\* C7's case: the latest answer is the 404 given for a service whose row exists
\* with its active flag false.
C7_Witness ==
    /\ last.status_code = 404
    /\ last.service_name \in DOMAIN services
    /\ ~services[last.service_name].is_active

\* C8: a row is inserted with status confirmed, and no row has status pending.
C8_InsertedConfirmedNeverPending ==
    [][/\ Inserted =>
            (/\ bookings'[Len(bookings')].status = "confirmed"
             /\ last'.status = "confirmed")
       /\ \A i \in 1..Len(bookings') : bookings'[i].status # "pending"]_vars

\* C8's case: a booking has been admitted and its row is in the table.
C8_Witness ==
    /\ last.op = "book" /\ last.status_code = 200
    /\ last.booking_id \in 1..Len(bookings)
    /\ bookings[last.booking_id].status = "confirmed"

\* C9: no two admitted bookings are given the same confirmation code; checked
\* on every two bookings admitted one after the other, the answer to the
\* earlier one still being the latest answer when the later one is admitted.
C9_CodesNeverRepeat ==
    [][(/\ last.op = "book" /\ last.status_code = 200
        /\ last'.op = "book" /\ last'.status_code = 200
        /\ last'.booking_id # last.booking_id)
       => last'.confirmation_code # last.confirmation_code]_vars

\* C10: a row is inserted with the duration and price its service has at that
\* moment; no step, a rewrite of the service's row included, changes the
\* duration or price of a row; and get_available_slots offers no slot at a
\* 15-minute mark of a row it consults that lies inside the row's stored
\* duration.
C10_DurationAndPriceFrozen ==
    [][/\ \A req \in BookingRequests :
            (Inserted /\ HandleBooking(req))
            => (/\ bookings'[Len(bookings')].service_duration
                      = services[req.service_name].duration
                /\ bookings'[Len(bookings')].total_price
                      = services[req.service_name].price
                /\ last'.total_price = services[req.service_name].price)
       /\ \A i \in 1..Len(bookings) :
            /\ i <= Len(bookings')
            /\ bookings'[i].service_duration = bookings[i].service_duration
            /\ bookings'[i].total_price = bookings[i].total_price
       /\ \A q \in SlotQueries :
            \A i \in 1..Len(bookings) :
                  (/\ AnswersListing(q)
                   /\ AppointmentDateEq(bookings[i].appointment_date, q.date)
                   /\ bookings[i].status = "confirmed"
                   /\ HandleSlots(q))
                  => \A k \in 0..(bookings[i].service_duration \div SlotStep) :
                        RowStart(bookings[i]) + k * SlotStep < RowEnd(bookings[i])
                        => \A n \in 1..Len(last'.available_slots) :
                              last'.available_slots[n]
                                  # strftime_HM(RowStart(bookings[i]) + k * SlotStep)]_vars

\* C10's case: the latest answer lists the slots of a date on which a row is
\* consulted whose stored duration and price are no longer those of its service.
C10_Witness ==
    /\ last.op = "slots" /\ last.status_code = 200
    /\ \E i \in 1..Len(bookings) :
          /\ AppointmentDateEq(bookings[i].appointment_date, last.date)
          /\ bookings[i].status = "confirmed"
          /\ bookings[i].service_duration > services[bookings[i].service_name].duration
          /\ bookings[i].total_price # services[bookings[i].service_name].price

C12_CancelledNeverConflicts ==
    [][\A req \in BookingRequests :
          \A i \in 1..Len(bookings) :
             (/\ AnswersBooking(req)
              /\ ReqValid(req)
              /\ bookings[i].status = "cancelled"
              /\ bookings[i].appointment_date.day = req.appointment_date
              /\ bookings[i].appointment_time = req.appointment_time
              /\ bookings[i].service_name = req.service_name
              /\ \A j \in 1..Len(bookings) :
                    (/\ bookings[j].status # "cancelled"
                     /\ bookings[j].appointment_date.day = req.appointment_date)
                    => ~Overlap(ReqStart(req), ReqEnd(req),
                                RowStart(bookings[j]), RowEnd(bookings[j]))
              /\ HandleBooking(req))
             => (/\ last'.status_code = 200
                 /\ Inserted
                 /\ bookings'[i] = bookings[i])]_vars

\* C12's case: the row admitted last starts at midnight, where the conflict
\* query's date test finds the rows of its date, and an earlier row of the same
\* date, start and service is there with status cancelled.
C12_Witness ==
    /\ last.op = "book" /\ last.status_code = 200 /\ last.booking_id = Len(bookings)
    /\ \E i \in 1..Len(bookings) - 1 :
          /\ bookings[i].status = "cancelled"
          /\ bookings[i].appointment_date = bookings[Len(bookings)].appointment_date
          /\ bookings[i].appointment_date.min = 0
          /\ bookings[i].appointment_time = bookings[Len(bookings)].appointment_time
          /\ bookings[i].service_name = bookings[Len(bookings)].service_name

\* C13: a slot list is strictly ascending in time of day (so it holds no slot
\* twice).
C13_SlotsStrictlyAscending ==
    SlotListed =>
        \A n \in 1..Len(last.available_slots) - 1 : SlotAt(n) < SlotAt(n + 1)

\* C13's case: a list of several slots, computed for a date one of whose
\* confirmed rows the listing consulted.
C13_Witness ==
    /\ SlotListed
    /\ Len(last.available_slots) >= 2
    /\ \E i \in 1..Len(bookings) :
          /\ AppointmentDateEq(bookings[i].appointment_date, last.date)
          /\ bookings[i].status = "confirmed"

\* C14: every listed slot s has open <= s and s + duration <= close, in minutes
\* of the one calendar day; a duration longer than close - open gives the empty
\* list.
C14_SlotsInsideHours ==
    SlotListed =>
        LET duration == services[last.service_name].duration
        IN  /\ \A n \in 1..Len(last.available_slots) :
                  /\ OpenOf(last.date) <= SlotAt(n)
                  /\ SlotAt(n) + duration <= CloseOf(last.date)
            /\ (OpenDay(last.date) /\ duration > CloseOf(last.date) - OpenOf(last.date))
                  => last.available_slots = <<>>

\* C15: no listed slot's interval [s, s + duration) overlaps the interval of a
\* row of that date that is not cancelled.
C15_SlotsAvoidBookings ==
    SlotListed =>
        \A n \in 1..Len(last.available_slots) :
            \A i \in 1..Len(bookings) :
                (/\ bookings[i].status # "cancelled"
                 /\ bookings[i].appointment_date.day = last.date)
                => ~Overlap(SlotAt(n), SlotAt(n) + services[last.service_name].duration,
                            RowStart(bookings[i]), RowEnd(bookings[i]))

\* C16: with no booking in the table, the list for an open weekday lies in
\* [open, close - duration], starts at open, and its consecutive slots are 15
\* minutes apart.
C16_EmptyDaySlotsContiguous ==
    (SlotListed /\ OpenDay(last.date) /\ bookings = <<>>) =>
        LET duration == services[last.service_name].duration
            count == Len(last.available_slots)
        IN  /\ \A n \in 1..count :
                  /\ OpenOf(last.date) <= SlotAt(n)
                  /\ SlotAt(n) <= CloseOf(last.date) - duration
            /\ count > 0 => SlotAt(1) = OpenOf(last.date)
            /\ \A n \in 1..count - 1 : SlotAt(n + 1) - SlotAt(n) = SlotStep

\* C17: asked of a date whose weekday has no operating window, for a service
\* of the catalogue, get_available_slots answers 200 with the empty list and
\* leaves the table as it is, whatever rows the table holds.
C17_ClosedDayEmpty ==
    [][\A q \in SlotQueries :
          (/\ AnswersListing(q)
           /\ ~OpenDay(q.date)
           /\ q.service_name \in DOMAIN services /\ services[q.service_name].is_active
           /\ HandleSlots(q))
          => (/\ last'.status_code = 200
              /\ last'.available_slots = <<>>
              /\ bookings' = bookings)]_vars

\* C17's case: the empty list answered for a closed Sunday while the table
\* holds rows.
C17_Witness ==
    /\ SlotListed
    /\ ~OpenDay(last.date)
    /\ last.available_slots = <<>>
    /\ Len(bookings) > 0

C19_SideEffectFailureKeepsBooking ==
    [][/\ \A req \in BookingRequests :
            (/\ AnswersBooking(req)
             /\ BookingOutcome(req, services, bookings, business_hours, now).status_code = 200
             /\ HandleBooking(req))
            => (/\ last'.status_code = 200
                /\ Inserted
                /\ last'.booking_id = Len(bookings')
                /\ bookings'[Len(bookings')].status = "confirmed")
       /\ \A i \in 1..Len(bookings) :
            i <= Len(bookings') /\ bookings'[i] = bookings[i]]_vars

\* C19's case: the two emails, the calendar insert and the sheet append all
\* fail, and the latest answer is the 200 of a booking whose row is confirmed.
C19_Witness ==
    /\ outage = SideEffects
    /\ last.op = "book" /\ last.status_code = 200
    /\ last.booking_id = Len(bookings)
    /\ bookings[last.booking_id].status = "confirmed"

\* C20: two well-formed requests rejected for different reasons (unknown
\* service, past or present, outside hours, conflict) are not given the same
\* value: their answers differ in status code or in detail.
C20_RejectionsDistinguishable ==
    (/\ Len(submitted) = 2
     /\ answers[1].status_code # 200 /\ answers[2].status_code # 200
     /\ ReqParses(submitted[1]) /\ ReqParses(submitted[2])
     /\ ReasonOf(submitted[1]) # ReasonOf(submitted[2]))
    => <<answers[1].status_code, answers[1].detail>>
          # <<answers[2].status_code, answers[2].detail>>

\* C20's case: a request in the past and one outside the hours, both answered
\* with status code 400.
C20_Witness ==
    /\ Len(submitted) = 2
    /\ ReqParses(submitted[1]) /\ ReqParses(submitted[2])
    /\ answers[1].status_code = 400 /\ answers[2].status_code = 400
    /\ ReasonOf(submitted[1]) = "PastOrPresent"
    /\ ReasonOf(submitted[2]) = "OutsideHours"

\* C21: the answer to a request for a date is the one the checks give on the
\* rows of that date alone, whatever rows other dates have; and a step that
\* admits it leaves every row already in the table as it was.
C21_OtherDatesIndependent ==
    [][\A req \in BookingRequests :
          (AnswersBooking(req) /\ HandleBooking(req))
          => LET onDate(b) == b.appointment_date.day = req.appointment_date
                 alone == BookingOutcome(req, services, SelectSeq(bookings, onDate),
                                         business_hours, now)
             IN  /\ last'.status_code = alone.status_code
                 /\ last'.detail = alone.detail
                 /\ \A i \in 1..Len(bookings) :
                        i <= Len(bookings') /\ bookings'[i] = bookings[i]]_vars

\* C21's case: a booking at 10:00 of day 13 is in the table, and a request
\* for 10:00 of day 7 has been admitted after it.
C21_Witness ==
    /\ Len(bookings) = 2
    /\ bookings[1].appointment_date.day = 13 /\ bookings[1].appointment_time = <<10, 0>>
    /\ bookings[1].status = "confirmed"
    /\ bookings[2].appointment_date.day = 7 /\ bookings[2].appointment_time = <<10, 0>>
    /\ last.op = "book" /\ last.status_code = 200 /\ last.booking_id = 2
    /\ last.date = 7

\* C22: a step that answers GET /available-slots leaves the bookings table and the
\* services table as they were, and with them the answer create_booking
\* gives to every request: what it listed is held for nobody.
C22_ListingReservesNothing ==
    [][\A q \in SlotQueries :
          AnswersListing(q)
          => /\ bookings' = bookings
             /\ services' = services
             /\ \A req \in BookingRequests :
                    BookingOutcome(req, services', bookings', business_hours', now')
                        = BookingOutcome(req, services, bookings, business_hours, now)]_vars

\* C22's case: with a booking in the table, the latest answer is a list of
\* slots, and a request for the first of them would be admitted.
C22_Witness ==
    /\ SlotListed
    /\ Len(bookings) = 1
    /\ Len(last.available_slots) > 0
    /\ BookingOutcome([service_name |-> last.service_name,
                       appointment_date |-> last.date,
                       appointment_time |-> last.available_slots[1]],
                      services, bookings, business_hours, now).status_code = 200

\* C23: with no booking in the table, the list for an open weekday is exactly
\* the starts open + k * (15 + buffer_time), k >= 0, whose slot ends by close.
C23_EmptyDayMaximalSet ==
    (SlotListed /\ OpenDay(last.date) /\ bookings = <<>>) =>
        LET duration == services[last.service_name].duration
            open == OpenOf(last.date)
            close == CloseOf(last.date)
        IN  {SlotAt(n) : n \in 1..Len(last.available_slots)}
                = {t \in open..close :
                      /\ (t - open) % (SlotStep + buffer_time) = 0
                      /\ t + duration <= close}

C25_AdmitNotDelayedByCollaborators ==
    [][Inserted =>
          /\ last'.op = "book" /\ last'.status_code = 200
          /\ last'.booking_id = Len(bookings')
          /\ ~LoopBlocked']_vars

\* C26: the checks run in the order service, future, hours, conflict, and the
\* first that fails is the answer: an unknown service is answered 404 whatever
\* its date and time; a request of a known service that is not in the future
\* is answered "Appointment must be in the future" whatever the hours and the
\* table; a future request that the weekday's hours do not hold whole is
\* answered with the closed-day or the opening-hours message whatever the
\* table.
C26_FirstFailingCheckReported ==
    [][\A req \in BookingRequests :
          (AnswersBooking(req) /\ HandleBooking(req))
          => /\ ~ReqKnown(req) =>
                    (last'.status_code = 404 /\ last'.detail = "Service not found")
             /\ (ReqKnown(req) /\ ReqParses(req) /\ ~ReqFuture(req)) =>
                    (/\ last'.status_code = 400
                     /\ last'.detail = "Appointment must be in the future")
             /\ (/\ ReqKnown(req) /\ ReqParses(req) /\ ReqFuture(req)
                 /\ ~InsideHours(req.appointment_date, ReqStart(req), ReqEnd(req))) =>
                    (/\ last'.status_code = 400
                     /\ last'.detail \in {"Spa is closed on this day",
                                          "Spa is open from {open} to {close} on {day}"})]_vars

\* C27: a step that answers POST /book with a rejection, whichever check
\* raised it, leaves the bookings table exactly as it was.
C27_RejectionLeavesLedger ==
    [][(last'.op = "book" /\ last'.status_code # 200) => bookings' = bookings]_vars

\* C27's case: a request was admitted, the next one was answered 409, and the
\* table holds the admitted row and nothing else.
C27_Witness ==
    /\ Len(submitted) = 2
    /\ answers[2].status_code = 200
    /\ answers[1].status_code = 409 /\ last = answers[1]
    /\ Len(bookings) = 1
    /\ bookings[1].id = answers[2].booking_id

C29_AdmittedRowsSelectedForTheirDate ==
    \A i \in 1..Len(bookings) :
        /\ bookings[i].appointment_date.min = strptime_HM(bookings[i].appointment_time)
        /\ bookings[i].status = "confirmed"
            => AppointmentDateEq(bookings[i].appointment_date,
                                 bookings[i].appointment_date.day)

\* C30: get_available_slots comes to its end: the loop over a row's booked
\* times and the walk over the candidates both leave, and the answer is a
\* finished list.
C30_SlotListingTerminates ==
    (last.op = "slots" /\ last.status_code = 200) =>
        \A n \in 1..Len(last.available_slots) : last.available_slots[n] # Diverged

====
